---- MODULE Spec2Model ----
(***************************************************************************)
(* Lead intake of the Local Authority Lead Engine: the /api/lead handler   *)
(* create_lead (backend/app.py) over the Site and Lead tables              *)
(* (backend/database.py).  Strings the handler inspects (name, phone,      *)
(* site_slug, niche, city) are sequences of one-character strings, so that *)
(* str.strip, str.split, str.replace and str.title are computed.           *)
(***************************************************************************)
EXTENDS Integers, Sequences, FiniteSets, TLC

\* ---------------------------------------------------------------- bounds
\* Outreach check: leads of one site with one timestamp.
MaxPerStamp == 3
\* Outreach check: days that pass after the tables are filled.
MaxTicks == 1
\* filter_niches: entries of the list passed.
MaxNiches == 3
\* Worker threads that can each hold one request in flight.
NumWorkers == 2
\* Rows of the leads table (requests in flight count as one each).
MaxLeads == 2

Workers == 1..NumWorkers

\* ------------------------------------------------------------ characters
LowerCase == {"a", "d", "j", "o"}
UpperCase == {"A", "D", "J", "O"}
Whitespace == {" ", "\t", "\n"}

IsCased(c) == c \in LowerCase \cup UpperCase

ToUpper(c) ==
    CASE c = "a" -> "A"
      [] c = "d" -> "D"
      [] c = "j" -> "J"
      [] c = "o" -> "O"
      [] OTHER -> c

ToLower(c) ==
    CASE c = "A" -> "a"
      [] c = "D" -> "d"
      [] c = "J" -> "j"
      [] c = "O" -> "o"
      [] OTHER -> c

\* ------------------------------------------------------- string helpers
RECURSIVE LStrip(_)
LStrip(s) ==
    IF s # <<>> /\ Head(s) \in Whitespace THEN LStrip(Tail(s)) ELSE s

RECURSIVE RStrip(_)
RStrip(s) ==
    IF s # <<>> /\ s[Len(s)] \in Whitespace
    THEN RStrip(SubSeq(s, 1, Len(s) - 1))
    ELSE s

\* str.strip()
Strip(s) == RStrip(LStrip(s))

\* `not name.strip()` with the strip left out
IsBlankNoStrip(s) == s = <<>>

\* `not s.strip()`: the stripped string is empty (falsy)
IsBlank(s) == Strip(s) = <<>>

\* str.split("_"): one part more than there are separators
RECURSIVE Split(_)
Split(s) ==
    IF \A i \in 1..Len(s) : s[i] # "_"
    THEN <<s>>
    ELSE LET i == CHOOSE k \in 1..Len(s) :
                      s[k] = "_" /\ \A j \in 1..(k - 1) : s[j] # "_"
         IN  <<SubSeq(s, 1, i - 1)>> \o Split(SubSeq(s, i + 1, Len(s)))

\* str.replace("-", " ")
Replace(s) == [i \in 1..Len(s) |-> IF s[i] = "-" THEN " " ELSE s[i]]

\* str.title() with the lower-casing of the rest of each word only
TitleNoUpper(s) ==
    [i \in 1..Len(s) |->
        IF IsCased(s[i]) /\ ~(i = 1 \/ ~IsCased(s[i - 1]))
        THEN ToLower(s[i])
        ELSE s[i]]

\* str.title(): a cased character is upper-cased when the character before
\* it is not cased (or there is none) and lower-cased otherwise
Title(s) ==
    [i \in 1..Len(s) |->
        IF IsCased(s[i])
        THEN IF i = 1 \/ ~IsCased(s[i - 1]) THEN ToUpper(s[i]) ELSE ToLower(s[i])
        ELSE s[i]]

\* ------------------------------------------------------------ constants
None == "None"
Unknown == <<"U", "n", "k", "n", "o", "w", "n">>
PartnerEmail == "partner@example.com"

MsgRouted == "Thank you! Your request has been routed to our local partner."
MsgUnrouted == "Thank you for contacting us. We will reach out shortly."
MsgRequired == "Name and phone are required."
MsgIntegrityError == "IntegrityError: UNIQUE constraint failed: sites.slug"

NoResponse == [status |-> 0, message |-> ""]

\* filter_niches defaults: min_cpc = 10.0 (in cents), max_difficulty = 40
DefaultMinCpc == 1000
DefaultMaxDifficulty == 40

\* sales_automation: leads needed, and the days they are counted over
LEAD_THRESHOLD == 5
WindowDays == 30

\* ----------------------------------------------------------- form inputs
Names == {<<>>, <<" ", "\t">>, <<" ", "J", "o", " ">>}
Phones == {<<>>, <<"\n">>, <<"5", "5">>}
Slugs ==
    { <<"1", "a", "-", "D", "J", "_", "o", "-", "d">>,
      <<"a", "-", "D">>,
      <<"a", "_", "d", "_", "a">> }

Forms == [site_slug : Slugs, name : Names, phone : Phones]

\* ------------------------------------------------------------------ state
VARIABLES
    sites,      \* table "sites": row i has id i
    leads,      \* table "leads": row i has id i
    pc,         \* per worker: position in create_lead
    form,       \* per worker: the submitted form fields
    site,       \* per worker: id of the session's Site object (0: none yet)
    lead,       \* per worker: id of the session's Lead object (0: none yet)
    partner,    \* per worker: site.partner_email as loaded by the routing test
    response,   \* what the request that ended last returned
    completed,  \* history, per slug: requests answered with status 200
    atInsert,   \* history, per worker: the Site's partner contact at the moment
                \* the request in flight inserted its lead
    now,        \* datetime.utcnow(), in days
    notified,   \* what the last run of the outreach check printed
    checkedAt,  \* the time of the last run of the outreach check (-1: none)
    niches,     \* filter_niches: the list passed
    min_cpc,    \* filter_niches: the threshold passed, in cents
    max_difficulty, \* filter_niches: the threshold passed
    filtered,   \* filter_niches: the list returned
    pcFilter    \* filter_niches: "call" before it has run, "returned" after

vars == <<sites, leads, pc, form, site, lead, partner, response, completed,
          atInsert, now, notified, checkedAt, niches, min_cpc, max_difficulty,
          filtered, pcFilter>>

\* What the lead intake leaves alone.
outreachVars == <<now, notified, checkedAt>>
nicheVars == <<niches, min_cpc, max_difficulty, filtered, pcFilter>>

NoForm == [site_slug |-> <<>>, name |-> <<>>, phone |-> <<>>]

Init ==
    /\ sites = <<>>
    /\ leads = <<>>
    /\ pc = [p \in Workers |-> "idle"]
    /\ form = [p \in Workers |-> NoForm]
    /\ site = [p \in Workers |-> 0]
    /\ lead = [p \in Workers |-> 0]
    /\ partner = [p \in Workers |-> None]
    /\ response = NoResponse
    /\ completed = [s \in Slugs |-> 0]
    /\ atInsert = [p \in Workers |-> None]
    /\ now = 0
    /\ notified = <<>>
    /\ checkedAt = -1
    /\ niches = <<>>
    /\ min_cpc = DefaultMinCpc
    /\ max_difficulty = DefaultMaxDifficulty
    /\ filtered = <<>>
    /\ pcFilter = "call"

\* ------------------------------------------------------------- operators
\* a validation that looks at the name only
InvalidNameOnly(f) == IsBlank(f.name)

\* `if not name.strip() or not phone.strip()`
Invalid(f) == IsBlank(f.name) \/ IsBlank(f.phone)

\* a lookup that never finds the row
FindSiteMiss(ss, slug) == 0

\* db.query(Site).filter_by(slug=site_slug).first(): the id, 0 for None
FindSite(ss, slug) ==
    IF \E i \in 1..Len(ss) : ss[i].slug = slug
    THEN CHOOSE i \in 1..Len(ss) :
             ss[i].slug = slug /\ \A j \in 1..(i - 1) : ss[j].slug # slug
    ELSE 0

\* the first two parts taken by index, whatever the number of parts
DeriveFirstTwoParts(slug) ==
    LET parts == Split(slug)
    IN  IF Len(parts) >= 2
        THEN [niche |-> Title(Replace(parts[1])),
              city |-> Title(Replace(parts[2]))]
        ELSE [niche |-> slug, city |-> Unknown]

\* the try/except around the two-name unpacking of site_slug.split("_")
Derive(slug) ==
    LET parts == Split(slug)
    IN  IF Len(parts) = 2
        THEN [niche |-> Title(Replace(parts[1])),
              city |-> Title(Replace(parts[2]))]
        ELSE [niche |-> slug, city |-> Unknown]

\* Site(slug=site_slug, niche=niche, city=city, partner_email=None), with the
\* id the insert assigns
NewSite(slug, id) ==
    [id |-> id, slug |-> slug, niche |-> Derive(slug).niche,
     city |-> Derive(slug).city, partner_email |-> None]

\* a slug column without the unique index
NoUniqueViolation(ss, slug) == FALSE

\* Column(String, unique=True): the INSERT fails when the slug is present
UniqueViolation(ss, slug) == \E i \in 1..Len(ss) : ss[i].slug = slug

\* the truth value of a string that is not tested
TruthyNever(v) == FALSE

\* `if site.partner_email:`: None and the empty string are falsy
Truthy(v) == v # None /\ v # ""

\* the flag set on the object and never written
SetRoutedLost(ls, id) == ls

\* the flag written to every lead of the same site
SetRoutedAllOfSite(ls, id) ==
    [i \in 1..Len(ls) |->
        IF ls[i].site_id = ls[id].site_id THEN [ls[i] EXCEPT !.routed = TRUE]
        ELSE ls[i]]

\* lead.routed = True; db.commit(): one UPDATE of the session's lead row
SetRouted(ls, id) == [ls EXCEPT ![id].routed = TRUE]

InFlight(p) ==
    pc[p] \in {"lookup", "create_site", "insert_lead", "route_test", "route_commit"}

\* Requests that have not inserted their lead yet.
BeforeInsert == {p \in Workers : pc[p] \in {"lookup", "create_site", "insert_lead"}}

\* The handler returns or raises: its locals are gone, the answer is kept.
Return(p, r) ==
    /\ pc' = [pc EXCEPT ![p] = "idle"]
    /\ response' = r
    /\ form' = [form EXCEPT ![p] = NoForm]
    /\ site' = [site EXCEPT ![p] = 0]
    /\ lead' = [lead EXCEPT ![p] = 0]
    /\ partner' = [partner EXCEPT ![p] = None]
    /\ atInsert' = [atInsert EXCEPT ![p] = None]

\* ---------------------------------------------------------------- actions
\* Worker p is handed the form f; lines 63-64 validate it.
Submit(p, f) ==
    /\ pc[p] = "idle"
    /\ Len(leads) + Cardinality(BeforeInsert) < MaxLeads
    /\ IF Invalid(f)
       THEN Return(p, [status |-> 400, message |-> MsgRequired])
       ELSE /\ pc' = [pc EXCEPT ![p] = "lookup"]
            /\ form' = [form EXCEPT ![p] = f]
            /\ UNCHANGED <<site, lead, partner, response, atInsert>>
    /\ UNCHANGED <<sites, leads, completed>>
    /\ UNCHANGED <<outreachVars, nicheVars>>

\* A request arrives.
Begin(p) == \E f \in Forms : Submit(p, f)

\* find-or-create written as an upsert: a row that is found is rewritten
\* from the slug
LookupUpsert(p) ==
    /\ pc[p] = "lookup"
    /\ LET id == FindSite(sites, form[p].site_slug)
       IN  /\ site' = [site EXCEPT ![p] = id]
           /\ pc' = [pc EXCEPT ![p] = IF id = 0 THEN "create_site" ELSE "insert_lead"]
           /\ sites' = IF id = 0 THEN sites
                       ELSE [sites EXCEPT ![id] = NewSite(form[p].site_slug, id)]
    /\ UNCHANGED <<leads, form, lead, partner, response, completed, atInsert>>
    /\ UNCHANGED <<outreachVars, nicheVars>>

\* Line 68: find the site.
Lookup(p) ==
    /\ pc[p] = "lookup"
    /\ LET id == FindSite(sites, form[p].site_slug)
       IN  /\ site' = [site EXCEPT ![p] = id]
           /\ pc' = [pc EXCEPT ![p] = IF id = 0 THEN "create_site" ELSE "insert_lead"]
    /\ UNCHANGED <<sites, leads, form, lead, partner, response, completed, atInsert>>
    /\ UNCHANGED <<outreachVars, nicheVars>>

\* Lines 69-81: derive niche and city, insert the site and commit.  The
\* unique index on slug makes the commit raise when another request has
\* inserted the slug since the lookup; nothing catches it.
CreateSite(p) ==
    /\ pc[p] = "create_site"
    /\ IF UniqueViolation(sites, form[p].site_slug)
       THEN /\ Return(p, [status |-> 500, message |-> MsgIntegrityError])
            /\ UNCHANGED sites
       ELSE /\ sites' = Append(sites, NewSite(form[p].site_slug, Len(sites) + 1))
            /\ site' = [site EXCEPT ![p] = Len(sites) + 1]
            /\ pc' = [pc EXCEPT ![p] = "insert_lead"]
            /\ UNCHANGED <<form, lead, partner, response, atInsert>>
    /\ UNCHANGED <<leads, completed>>
    /\ UNCHANGED <<outreachVars, nicheVars>>

\* Lines 84-95: insert the lead with routed = False and commit; the
\* timestamp column defaults to datetime.utcnow.
InsertLead(p) ==
    /\ pc[p] = "insert_lead"
    /\ leads' = Append(leads,
           [id |-> Len(leads) + 1, site_id |-> site[p], name |-> form[p].name,
            phone |-> form[p].phone, timestamp |-> now, routed |-> FALSE])
    /\ lead' = [lead EXCEPT ![p] = Len(leads) + 1]
    /\ atInsert' = [atInsert EXCEPT ![p] = sites[site[p]].partner_email]
    /\ pc' = [pc EXCEPT ![p] = "route_test"]
    /\ UNCHANGED <<sites, form, site, partner, response, completed>>
    /\ UNCHANGED <<outreachVars, nicheVars>>

\* Line 98: the commit of line 94 expired the session's objects, so
\* site.partner_email is loaded from the table here; lines 103-105 answer
\* when it is falsy.
RouteTest(p) ==
    /\ pc[p] = "route_test"
    /\ LET v == sites[site[p]].partner_email
       IN  IF Truthy(v)
           THEN /\ partner' = [partner EXCEPT ![p] = v]
                /\ pc' = [pc EXCEPT ![p] = "route_commit"]
                /\ UNCHANGED <<form, site, lead, response, completed, atInsert>>
           ELSE /\ Return(p, [status |-> 200, message |-> MsgUnrouted])
                /\ completed' = [completed EXCEPT ![form[p].site_slug] = @ + 1]
    /\ UNCHANGED <<sites, leads>>
    /\ UNCHANGED <<outreachVars, nicheVars>>

\* Lines 99-102: set the flag, commit, answer.
RouteCommit(p) ==
    /\ pc[p] = "route_commit"
    /\ leads' = SetRouted(leads, lead[p])
    /\ Return(p, [status |-> 200, message |-> MsgRouted])
    /\ completed' = [completed EXCEPT ![form[p].site_slug] = @ + 1]
    /\ UNCHANGED sites
    /\ UNCHANGED <<outreachVars, nicheVars>>

\* an interruption that undoes what the request has committed, as if the
\* request were one transaction
CrashRollback(p) ==
    /\ InFlight(p)
    /\ Return(p, NoResponse)
    /\ sites' = IF pc[p] = "insert_lead" /\ site[p] = Len(sites)
                   /\ \A j \in 1..Len(leads) : leads[j].site_id # site[p]
                THEN SubSeq(sites, 1, Len(sites) - 1)
                ELSE sites
    /\ UNCHANGED <<leads, completed>>
    /\ UNCHANGED <<outreachVars, nicheVars>>

\* The request is interrupted between two of its steps: what it has
\* committed stays, and nothing is answered.
Crash(p) ==
    /\ InFlight(p)
    /\ Return(p, NoResponse)
    /\ UNCHANGED <<sites, leads, completed>>
    /\ UNCHANGED <<outreachVars, nicheVars>>

\* A partner contact is assigned to a site that has none (done outside the
\* intake flow, on the nullable partner_email column).
AssignPartner(i) ==
    /\ i \in 1..Len(sites)
    /\ sites[i].partner_email = None
    /\ sites' = [sites EXCEPT ![i].partner_email = PartnerEmail]
    /\ UNCHANGED <<leads, pc, form, site, lead, partner, response, completed,
                   atInsert>>
    /\ UNCHANGED <<outreachVars, nicheVars>>

Next ==
    \/ \E p \in Workers : Begin(p)
    \/ \E p \in Workers : Lookup(p)
    \/ \E p \in Workers : CreateSite(p)
    \/ \E p \in Workers : InsertLead(p)
    \/ \E p \in Workers : RouteTest(p)
    \/ \E p \in Workers : RouteCommit(p)
    \/ \E i \in 1..MaxLeads : AssignPartner(i)

\* Requests run to their end.
Spec == Init /\ [][Next]_vars

\* Requests are submitted one after the other: a worker steps only while
\* no other request is in flight.
Alone(p) == \A q \in Workers \ {p} : pc[q] = "idle"

NextSeq ==
    \/ \E p \in Workers : Alone(p) /\ Begin(p)
    \/ \E p \in Workers : Alone(p) /\ Lookup(p)
    \/ \E p \in Workers : Alone(p) /\ CreateSite(p)
    \/ \E p \in Workers : Alone(p) /\ InsertLead(p)
    \/ \E p \in Workers : Alone(p) /\ RouteTest(p)
    \/ \E p \in Workers : Alone(p) /\ RouteCommit(p)
    \/ \E i \in 1..MaxLeads : AssignPartner(i)

SpecSeq == Init /\ [][NextSeq]_vars

\* Requests submitted one after the other may also be interrupted.
NextCrash ==
    \/ NextSeq
    \/ \E p \in Workers : Crash(p)

SpecCrash == Init /\ [][NextCrash]_vars

\* ------------------------------------------------------- outreach check
\* the threshold compared strictly
TriggersStrict(count) == count > LEAD_THRESHOLD

\* `if count >= LEAD_THRESHOLD`
Triggers(count) == count >= LEAD_THRESHOLD

\* db.query(Lead).filter(Lead.site_id == site.id)
\*   .filter(Lead.timestamp >= cutoff).count()
RECURSIVE CountLeads(_, _, _)
CountLeads(ls, id, cutoff) ==
    IF ls = <<>> THEN 0
    ELSE (IF Head(ls).site_id = id /\ Head(ls).timestamp >= cutoff THEN 1 ELSE 0)
         + CountLeads(Tail(ls), id, cutoff)

\* db.query(Site).filter(Site.partner_email.is_(None)).all()
WithoutPartner(ss) == SelectSeq(ss, LAMBDA r : r.partner_email = None)

\* What is printed for a site: the slug and count of the first line, the
\* niche, city and count of the email body.
Notice(r, count) ==
    [slug |-> r.slug, niche |-> r.niche, city |-> r.city, count |-> count]

\* The loop over the sites without partner.
RECURSIVE Outreach(_, _, _)
Outreach(ss, ls, cutoff) ==
    IF ss = <<>> THEN <<>>
    ELSE LET r == Head(ss)
             count == CountLeads(ls, r.id, cutoff)
         IN  (IF Triggers(count) THEN <<Notice(r, count)>> ELSE <<>>)
             \o Outreach(Tail(ss), ls, cutoff)

\* check_leads_and_trigger_outreach(): cutoff = utcnow() - 30 days.
CheckLeads ==
    /\ notified' = Outreach(WithoutPartner(sites), leads, now - WindowDays)
    /\ checkedAt' = now
    /\ UNCHANGED <<sites, leads, pc, form, site, lead, partner, response,
                   completed, atInsert, now, nicheVars>>

\* A day passes.
Tick ==
    /\ now < WindowDays + 1 + MaxTicks
    /\ now' = now + 1
    /\ UNCHANGED <<sites, leads, pc, form, site, lead, partner, response,
                   completed, atInsert, notified, checkedAt, nicheVars>>

\* Tables as the intake leaves them, for the outreach check: two sites,
\* each with or without a partner, and for each site and each timestamp
\* up to MaxPerStamp leads, inserted in the order of their timestamps.
OutreachSlugs == << <<"a", "-", "D">>, <<"1", "a", "-", "D", "J", "_", "o", "-", "d">> >>
Stamps == <<0, 1, WindowDays + 1>>

RECURSIVE Repeat(_, _)
Repeat(x, n) == IF n = 0 THEN <<>> ELSE <<x>> \o Repeat(x, n - 1)

LeadOf(sid, ts) ==
    [id |-> 0, site_id |-> sid, name |-> <<" ", "J", "o", " ">>,
     phone |-> <<"5", "5">>, timestamp |-> ts, routed |-> FALSE]

RECURSIVE Filled(_, _, _)
Filled(cnt, k, sid) ==
    IF k > Len(Stamps) THEN <<>>
    ELSE IF sid > Len(OutreachSlugs) THEN Filled(cnt, k + 1, 1)
    ELSE Repeat(LeadOf(sid, Stamps[k]), cnt[sid][k]) \o Filled(cnt, k, sid + 1)

InitOutreach ==
    /\ \E ps \in [1..Len(OutreachSlugs) -> {None, PartnerEmail}] :
         sites = [i \in 1..Len(OutreachSlugs) |->
                    [NewSite(OutreachSlugs[i], i) EXCEPT !.partner_email = ps[i]]]
    /\ \E cnt \in [1..Len(OutreachSlugs) -> [1..Len(Stamps) -> 0..MaxPerStamp]] :
         LET raw == Filled(cnt, 1, 1)
         IN  leads = [j \in 1..Len(raw) |-> [raw[j] EXCEPT !.id = j]]
    /\ pc = [p \in Workers |-> "idle"]
    /\ form = [p \in Workers |-> NoForm]
    /\ site = [p \in Workers |-> 0]
    /\ lead = [p \in Workers |-> 0]
    /\ partner = [p \in Workers |-> None]
    /\ response = NoResponse
    /\ completed = [s \in Slugs |-> 0]
    /\ atInsert = [p \in Workers |-> None]
    /\ now = WindowDays + 1
    /\ notified = <<>>
    /\ checkedAt = -1
    /\ niches = <<>>
    /\ min_cpc = DefaultMinCpc
    /\ max_difficulty = DefaultMaxDifficulty
    /\ filtered = <<>>
    /\ pcFilter = "call"

NextOutreach ==
    \/ CheckLeads
    \/ Tick

SpecOutreach == InitOutreach /\ [][NextOutreach]_vars

\* ------------------------------------------------------- niche selection
\* Niche (niche_selection.py): the two fields filter_niches compares and
\* the rank as the entry's identity; cpc in cents.

\* a filter whose cpc bound is exclusive
KeepsStrict(n, mc, md) == n.cpc > mc /\ n.difficulty <= md

\* the condition of the comprehension
Keeps(n, mc, md) == n.cpc >= mc /\ n.difficulty <= md

\* [n for n in niches if ...]: a new list, the kept entries in list order
filter_niches(ns, mc, md) == SelectSeq(ns, LAMBDA n : Keeps(n, mc, md))

\* filter_niches(niches, min_cpc, max_difficulty) is called and returns.
FilterCall ==
    /\ pcFilter = "call"
    /\ filtered' = filter_niches(niches, min_cpc, max_difficulty)
    /\ pcFilter' = "returned"
    /\ UNCHANGED <<niches, min_cpc, max_difficulty>>
    /\ UNCHANGED <<sites, leads, pc, form, site, lead, partner, response,
                   completed, atInsert, outreachVars>>

\* Values below, on and above each default threshold.
Cpcs == {DefaultMinCpc - 1, DefaultMinCpc, DefaultMinCpc + 1}
Difficulties == {DefaultMaxDifficulty - 1, DefaultMaxDifficulty,
                 DefaultMaxDifficulty + 1}

\* Thresholds passed: the defaults, and a pair no entry satisfies.
MinCpcs == {DefaultMinCpc, DefaultMinCpc + 2}
MaxDifficulties == {DefaultMaxDifficulty, DefaultMaxDifficulty - 2}

NicheLists ==
    UNION {[1..n -> [cpc : Cpcs, difficulty : Difficulties]] : n \in 0..MaxNiches}

\* Any list of entries and any thresholds may be passed; ranks follow the
\* list order.
InitFilter ==
    /\ \E ns \in NicheLists :
         niches = [i \in 1..Len(ns) |->
                     [rank |-> i, cpc |-> ns[i].cpc, difficulty |-> ns[i].difficulty]]
    /\ min_cpc \in MinCpcs
    /\ max_difficulty \in MaxDifficulties
    /\ filtered = <<>>
    /\ pcFilter = "call"
    /\ sites = <<>>
    /\ leads = <<>>
    /\ pc = [p \in Workers |-> "idle"]
    /\ form = [p \in Workers |-> NoForm]
    /\ site = [p \in Workers |-> 0]
    /\ lead = [p \in Workers |-> 0]
    /\ partner = [p \in Workers |-> None]
    /\ response = NoResponse
    /\ completed = [s \in Slugs |-> 0]
    /\ atInsert = [p \in Workers |-> None]
    /\ now = 0
    /\ notified = <<>>
    /\ checkedAt = -1

NextFilter == FilterCall

SpecFilter == InitFilter /\ [][NextFilter]_vars

\* ================================================================ claims
\* A string is blank when every character of it is whitespace.
AllWhitespace(s) == \A i \in 1..Len(s) : s[i] \in Whitespace

\* C1: a submission whose name or phone is empty after trimming whitespace
\* is answered 400 "Name and phone are required." and leaves the sites and
\* leads tables exactly as they were, whatever the slug and the tables; no
\* request in flight past the validation carries such a name or phone.
C1_InvalidRejected ==
    /\ [](\A p \in Workers :
            InFlight(p) =>
                ~AllWhitespace(form[p].name) /\ ~AllWhitespace(form[p].phone))
    /\ [][\A p \in Workers, f \in Forms :
            (AllWhitespace(f.name) \/ AllWhitespace(f.phone)) /\ Submit(p, f)
            => /\ response' = [status |-> 400, message |-> MsgRequired]
               /\ pc'[p] = "idle"
               /\ sites' = sites
               /\ leads' = leads]_vars

\* C1 witness: an invalid submission was answered 400 with rows in both
\* tables.
C1_Witness ==
    /\ response.status = 400
    /\ Len(sites) > 0
    /\ Len(leads) > 0

AtTest(p) ==
    IF pc[p] = "route_commit" THEN partner[p] ELSE sites[site[p]].partner_email

Underscores(slug) == {i \in 1..Len(slug) : slug[i] = "_"}

\* t is a with every hyphen replaced by a space and every word (run of
\* letters) capitalized: first letter upper case, the others lower case.
IsTitleCased(t, a) ==
    /\ Len(t) = Len(a)
    /\ \A i \in 1..Len(a) :
          IF a[i] = "-" THEN t[i] = " "
          ELSE IF a[i] \in LowerCase \cup UpperCase
          THEN IF i > 1 /\ a[i - 1] \in LowerCase \cup UpperCase
               THEN t[i] \in LowerCase /\ ToUpper(t[i]) = ToUpper(a[i])
               ELSE t[i] \in UpperCase /\ ToLower(t[i]) = ToLower(a[i])
          ELSE t[i] = a[i]

\* The step of worker p that ends its site creation (lines 69-81) for a
\* slug the table does not hold.
CreatesSite(p) ==
    /\ pc[p] = "create_site"
    /\ pc'[p] # pc[p]
    /\ \A i \in 1..Len(sites) : sites[i].slug # form[p].site_slug

\* C4: a valid submission whose slug is not in the sites table and has the
\* form a_b with exactly one underscore creates a Site with that slug, niche
\* = a and city = b, each with hyphens replaced by spaces and every word
\* capitalized, and no partner contact.
C4_SiteFromTwoParts ==
    [][\A p \in Workers :
          CreatesSite(p) /\ Cardinality(Underscores(form[p].site_slug)) = 1
          => LET slug == form[p].site_slug
                 k == CHOOSE i \in Underscores(slug) : TRUE
                 new == sites'[Len(sites')]
             IN  /\ Len(sites') = Len(sites) + 1
                 /\ new.slug = slug
                 /\ IsTitleCased(new.niche, SubSeq(slug, 1, k - 1))
                 /\ IsTitleCased(new.city, SubSeq(slug, k + 1, Len(slug)))
                 /\ new.partner_email = None]_vars

\* C4 witness: the Site of slug "1a-DJ_o-d" is in the table with niche
\* "1A Dj" and city "O D".
C4_Witness ==
    \E i \in 1..Len(sites) :
        /\ sites[i].slug = <<"1", "a", "-", "D", "J", "_", "o", "-", "d">>
        /\ sites[i].niche = <<"1", "A", " ", "D", "j">>
        /\ sites[i].city = <<"O", " ", "D">>

\* C5: a valid submission whose slug is not in the sites table and holds no
\* underscore, or more than one, creates a Site whose city is "Unknown" and
\* whose niche is the raw slug, unmodified.
C5_SiteFromRawSlug ==
    [][\A p \in Workers :
          CreatesSite(p) /\ Cardinality(Underscores(form[p].site_slug)) # 1
          => LET new == sites'[Len(sites')]
             IN  /\ Len(sites') = Len(sites) + 1
                 /\ new.slug = form[p].site_slug
                 /\ new.niche = form[p].site_slug
                 /\ new.city = Unknown]_vars

\* C5 witness: Sites created from a slug without underscore and from a slug
\* with two underscores are both in the table with city "Unknown".
C5_Witness ==
    \E i, j \in 1..Len(sites) :
        /\ Underscores(sites[i].slug) = {}
        /\ Cardinality(Underscores(sites[j].slug)) = 2
        /\ sites[i].city = Unknown /\ sites[i].niche = <<"a", "-", "D">>
        /\ sites[j].city = Unknown /\ sites[j].niche = sites[j].slug

\* Ids of the Site rows of a slug, and of the Lead rows referencing them.
SitesOf(s) == {i \in 1..Len(sites) : sites[i].slug = s}
LeadsOf(s) == {j \in 1..Len(leads) : leads[j].site_id \in SitesOf(s)}

\* C6: with requests submitted one after the other, no valid submission
\* fails, a slug never has a second Site row, every Lead references a Site
\* row, and once n submissions of a slug have been answered there is
\* exactly one Site row of that slug and exactly n Lead rows referencing it.
C6_OneSiteManyLeads ==
    /\ response.status # 500
    /\ \A j \in 1..Len(leads) : leads[j].site_id \in 1..Len(sites)
    /\ \A s \in Slugs :
          /\ Cardinality(SitesOf(s)) <= 1
          /\ (\A p \in Workers : pc[p] = "idle")
                => /\ Cardinality(LeadsOf(s)) = completed[s]
                   /\ completed[s] > 0 => Cardinality(SitesOf(s)) = 1

\* C6 witness: two submissions of one slug have been answered, and there
\* are one Site row and two Lead rows.
C6_Witness ==
    /\ \A p \in Workers : pc[p] = "idle"
    /\ \E s \in Slugs : completed[s] = 2 /\ Cardinality(LeadsOf(s)) = 2
    /\ Len(sites) = 1

\* C7 as claimed: a request whose site insert meets the slug already in the
\* table (inserted by a concurrent request since its lookup) takes the
\* existing Site and goes on to insert its lead; no request ends in an
\* unhandled failure.
C7_ConflictRetried ==
    [][\A p \in Workers :
          /\ pc[p] = "create_site"
          /\ pc'[p] # pc[p]
          /\ \E i \in 1..Len(sites) : sites[i].slug = form[p].site_slug
          => /\ pc'[p] = "insert_lead"
             /\ site'[p] \in SitesOf(form[p].site_slug)
             /\ response'.status # 500]_vars

\* C8: no two Site rows have the same slug.
C8_SlugUnique ==
    \A i, j \in 1..Len(sites) : sites[i].slug = sites[j].slug => i = j

\* C8 witness: two requests raced to create the Site of one slug; one row
\* of that slug is in the table and the losing insert was refused.
C8_Witness ==
    /\ response.status = 500
    /\ \E s \in Slugs : Cardinality(SitesOf(s)) = 1

\* C9: a Lead row is inserted with routed = FALSE by the request that holds
\* it; a row is never deleted; the only later write to a row sets routed
\* from FALSE to TRUE and is made by the request that inserted it; a routed
\* row is never written again.
C9_LeadLifecycle ==
    [][/\ Len(leads') >= Len(leads)
       /\ \A i \in (Len(leads) + 1)..Len(leads') : ~leads'[i].routed
       /\ \A p \in Workers :
             lead'[p] # lead[p]
             => \/ lead'[p] = 0
                \/ /\ pc[p] = "insert_lead"
                   /\ Len(leads') = Len(leads) + 1
                   /\ lead'[p] = Len(leads')
       /\ \A i \in 1..Len(leads) :
             \/ leads'[i] = leads[i]
             \/ /\ ~leads[i].routed
                /\ leads'[i] = [leads[i] EXCEPT !.routed = TRUE]
                /\ \E p \in Workers :
                      pc[p] = "route_commit" /\ lead[p] = i /\ pc'[p] = "idle"]_vars

\* C9 witness: a later request's Lead of a Site is routed and an earlier
\* Lead of the same Site is still unrouted.
C9_Witness ==
    \E i, j \in 1..Len(leads) :
        /\ i < j
        /\ leads[i].site_id = leads[j].site_id
        /\ ~leads[i].routed
        /\ leads[j].routed

\* C10: a step of the intake flow leaves every existing Site row unchanged
\* and deletes none; the table changes only by the row that a request
\* appends for a slug the table does not hold.
C10_SitesNeverUpdated ==
    [][\/ \E i \in 1..Len(sites) : AssignPartner(i)
       \/ sites' = sites
       \/ /\ Len(sites') = Len(sites) + 1
          /\ \A i \in 1..Len(sites) : sites'[i] = sites[i]
          /\ \E p \in Workers : CreatesSite(p) /\ pc'[p] = "insert_lead"]_vars

\* C10 witness: a Site with a partner contact has the Leads of two
\* requests, the later of which found it in the table.
C10_Witness ==
    \E i \in 1..Len(sites) :
        /\ sites[i].partner_email = PartnerEmail
        /\ Cardinality({j \in 1..Len(leads) : leads[j].site_id = i}) >= 2

\* Leads of the Site row i whose timestamp lies within the 30 days before t.
InWindow(i, t) ==
    {j \in 1..Len(leads) :
        leads[j].site_id = sites[i].id /\ t - leads[j].timestamp <= WindowDays}

WithoutLeads == {i \in 1..Len(sites) : \A j \in 1..Len(leads) : leads[j].site_id # i}

\* C12: the Site insert is committed on its own, before the Lead insert:
\* the step that creates the Site puts the row in the table with no Lead
\* referencing it, and a request interrupted after that step and before its
\* Lead insert leaves both tables as they are, the new Site without Leads.
C12_SiteCommittedAlone ==
    [][\A p \in Workers :
          /\ pc[p] = "create_site" /\ pc'[p] = "insert_lead"
             => /\ Len(sites') = Len(sites) + 1
                /\ leads' = leads
                /\ site'[p] = Len(sites')
                /\ site'[p] \in WithoutLeads'
          /\ pc[p] = "insert_lead" /\ pc'[p] = "idle"
             => /\ sites' = sites
                /\ leads' = leads
                /\ site[p] \in WithoutLeads => site[p] \in WithoutLeads']_vars

\* C12 witness: no request is in flight, nothing was answered, and the
\* tables hold a Site and no Lead.
C12_Witness ==
    /\ \A p \in Workers : pc[p] = "idle"
    /\ response = NoResponse
    /\ Len(sites) = 1
    /\ leads = <<>>

\* Positions of the list passed whose entry meets both thresholds.
Kept ==
    {i \in 1..Len(niches) :
        niches[i].cpc >= min_cpc /\ niches[i].difficulty <= max_difficulty}

\* The k-th smallest position of Kept.
KthKept(k) == CHOOSE i \in Kept : Cardinality({j \in Kept : j <= i}) = k

\* C13: filter_niches returns exactly the entries of the list passed with
\* cpc >= min_cpc and difficulty <= max_difficulty, each once, unaltered
\* and in the order of the list; it returns the empty list when no entry
\* meets both thresholds.
C13_FilterExact ==
    pcFilter = "returned" =>
        /\ Len(filtered) = Cardinality(Kept)
        /\ \A k \in 1..Len(filtered) : filtered[k] = niches[KthKept(k)]
        /\ Kept = {} => filtered = <<>>

\* C13 witness: of three entries the call kept the first, which is on both
\* thresholds, and the last, and dropped the one between them.
C13_Witness ==
    /\ pcFilter = "returned"
    /\ Len(niches) = 3
    /\ niches[1].cpc = min_cpc
    /\ niches[1].difficulty = max_difficulty
    /\ filtered = <<niches[1], niches[3]>>

\* C13 second case: entries were passed and none met both thresholds; the
\* call returned the empty list.
C13_WitnessEmpty ==
    /\ pcFilter = "returned"
    /\ Len(niches) = 3
    /\ filtered = <<>>

\* Site rows whose id is the given one.
SitesWithId(id) == {i \in 1..Len(sites) : sites[i].id = id}

\* C14: whatever valid and invalid submissions were handled one after the
\* other, every Lead row references the id of exactly one Site row of the
\* table, and its name and its phone each hold a character that is not
\* whitespace.
C14_LeadsWellFormed ==
    \A j \in 1..Len(leads) :
        /\ Cardinality(SitesWithId(leads[j].site_id)) = 1
        /\ \E i \in 1..Len(leads[j].name) : leads[j].name[i] \notin Whitespace
        /\ \E i \in 1..Len(leads[j].phone) : leads[j].phone[i] \notin Whitespace

\* C14 witness: two Leads of two different Sites are persisted, each with a
\* name that has whitespace around it, and the last request was answered.
C14_Witness ==
    /\ \A p \in Workers : pc[p] = "idle"
    /\ Len(leads) = 2
    /\ leads[1].site_id # leads[2].site_id
    /\ \A j \in 1..2 : leads[j].name[1] \in Whitespace
    /\ response.status = 200

====
